---- MODULE Spec2Model ----
(***************************************************************************)
(* kube-cloudflare-dns: the reconciliation engine.                         *)
(*                                                                         *)
(*   - the pure functions of src/plan.rs (records_for_hostname,            *)
(*     compute_records, plan), computed as the code computes them;         *)
(*   - the tasks of src/main.rs: two watchers that feed the shared cache   *)
(*     and the notification channel, and the reconciling main task that    *)
(*     talks to the DNS provider (src/api.rs).                             *)
(*                                                                         *)
(* Conventions.  A Rust Option<T> is a sequence of length 0 (None) or 1    *)
(* (Some(x)).  A Vec<T> is a sequence.  A Record is                        *)
(* [id, _type, name, content], all strings, as in src/api.rs.              *)
(***************************************************************************)
EXTENDS Integers, Sequences, FiniteSets, TLC

(***************************************************************************)
(* Program constants.                                                      *)
(***************************************************************************)
\* src/lib.rs:5
APP_NAME == "kube-cloudflare-dns"
\* src/lib.rs:6
HOSTNAME_LABEL == "kube-cloudflare-dns.github.com/hostname"
\* src/main.rs:72   channel(10)
ChannelCapacity == 10

None == <<>>
Some(x) == <<x>>
IsSome(o) == Len(o) = 1

(***************************************************************************)
(* Strings.  TLC evaluates Len and SubSeq on strings character-wise.       *)
(***************************************************************************)
CharAt(s, i) == SubSeq(s, i, i)

\* str::ends_with, src/main.rs:86
EndsWith(s, suffix) ==
    /\ Len(suffix) <= Len(s)
    /\ SubSeq(s, Len(s) - Len(suffix) + 1, Len(s)) = suffix

\* The positions of the one-character separator in s.
SepPositions(s, sep) == {i \in 1..Len(s) : CharAt(s, i) = sep}

\* The position of the k-th separator; 0 before the first, Len(s) + 1 after
\* the last.
Boundary(s, sep, k) ==
    IF k = 0 THEN 0
    ELSE IF k > Cardinality(SepPositions(s, sep)) THEN Len(s) + 1
    ELSE CHOOSE p \in SepPositions(s, sep) :
             Cardinality({q \in SepPositions(s, sep) : q < p}) = k - 1

\* str::split: the pieces of s between the separators.
Split(s, sep) ==
    [k \in 1..(Cardinality(SepPositions(s, sep)) + 1) |->
        SubSeq(s, Boundary(s, sep, k - 1) + 1, Boundary(s, sep, k) - 1)]

Digits == {"0", "1", "2", "3", "4", "5", "6", "7", "8", "9"}
HexDigits == Digits \cup {"a", "b", "c", "d", "e", "f", "A", "B", "C", "D", "E", "F"}

DigitValue(c) ==
    CASE c = "0" -> 0 [] c = "1" -> 1 [] c = "2" -> 2 [] c = "3" -> 3 [] c = "4" -> 4
      [] c = "5" -> 5 [] c = "6" -> 6 [] c = "7" -> 7 [] c = "8" -> 8 [] c = "9" -> 9

\* The value of a string of 1 to 3 decimal digits.
DecimalValue(s) ==
    IF Len(s) = 1 THEN DigitValue(CharAt(s, 1))
    ELSE IF Len(s) = 2 THEN 10 * DigitValue(CharAt(s, 1)) + DigitValue(CharAt(s, 2))
    ELSE 100 * DigitValue(CharAt(s, 1)) + 10 * DigitValue(CharAt(s, 2))
         + DigitValue(CharAt(s, 3))

\* One octet of a dotted quad: 1 to 3 decimal digits, no leading zero, at most 255.
IsOctet(g) ==
    /\ Len(g) \in 1..3
    /\ \A i \in 1..Len(g) : CharAt(g, i) \in Digits
    /\ (Len(g) > 1 => CharAt(g, 1) # "0")
    /\ DecimalValue(g) <= 255

IsIpv4(s) ==
    \E groups \in {Split(s, ".")} :
        /\ Len(groups) = 4
        /\ \A i \in 1..4 : IsOctet(groups[i])

\* One group of an IPv6 address: 1 to 4 hexadecimal digits.
IsHextet(g) ==
    /\ Len(g) \in 1..4
    /\ \A i \in 1..Len(g) : CharAt(g, i) \in HexDigits

\* The positions i at which s has "::".
DoubleColons(s) == {i \in 1..(Len(s) - 1) : SubSeq(s, i, i + 1) = "::"}

\* The groups of one side of a "::": none for the empty string.
SideGroups(s) == IF s = "" THEN <<>> ELSE Split(s, ":")

\* The 16-bit groups a run of ":"-separated pieces stands for: every piece a
\* hextet, or the last piece a dotted quad (the low 32 bits, two groups) after
\* hextets only; -1 when the run is neither.
GroupCount(groups) ==
    IF \A i \in 1..Len(groups) : IsHextet(groups[i]) THEN Len(groups)
    ELSE IF /\ Len(groups) >= 1
            /\ IsIpv4(groups[Len(groups)])
            /\ \A i \in 1..(Len(groups) - 1) : IsHextet(groups[i])
         THEN Len(groups) + 1
         ELSE -1

\* Ipv6Addr::from_str: eight groups, or fewer around one "::" that stands for
\* at least one group; hextets only before the "::".
IsIpv6(s) ==
    IF DoubleColons(s) = {}
    THEN \E groups \in {Split(s, ":")} : GroupCount(groups) = 8
    ELSE /\ Cardinality(DoubleColons(s)) = 1
         /\ \E at \in DoubleColons(s) :
                \E left \in {SideGroups(SubSeq(s, 1, at - 1))},
                   right \in {SideGroups(SubSeq(s, at + 2, Len(s)))} :
                    /\ \A i \in 1..Len(left) : IsHextet(left[i])
                    /\ GroupCount(right) >= 0
                    /\ Len(left) + GroupCount(right) <= 7

\* IpAddr::from_str as the match of src/plan.rs:73-77 reads it.
IpAddrFromStr(addr) ==
    IF IsIpv4(addr) THEN "V4" ELSE IF IsIpv6(addr) THEN "V6" ELSE "Err"

(***************************************************************************)
(* Records (src/api.rs:21-28).                                             *)
(***************************************************************************)
Record(id, type, name, content) ==
    [id |-> id, _type |-> type, name |-> name, content |-> content]

\* Concatenation of a sequence of sequences (Vec::extend in a loop), with the
\* argument evaluated once.
Flatten(seqs) ==
    CHOOSE out \in
        {LET acc[k \in 0..Len(v)] == IF k = 0 THEN <<>> ELSE acc[k - 1] \o v[k]
         IN  acc[Len(v)] : v \in {seqs}} : TRUE

(***************************************************************************)
(* Watched resources (src/resource.rs).  Only the fields the code reads:   *)
(*   Ingress: metadata.namespace/name (each an Option), spec.rules (each   *)
(*            rule is its Option<host>),                                   *)
(*            status.load_balancer.ingress (each entry is its Option<ip>); *)
(*   Service: metadata.namespace/name/annotations, spec.type_,             *)
(*            spec.cluster_ips, status.load_balancer.ingress.              *)
(* A chain of Options that the code matches in one pattern is one Option   *)
(* here: it is None when any link of the chain is None.                    *)
(***************************************************************************)
Ingress(ns, n, rules, lb) ==
    [kind |-> "Ingress", namespace |-> ns, name |-> n, rules |-> rules, lb_ingress |-> lb]

Service(ns, n, annotations, type, cluster_ips, lb) ==
    [kind |-> "Service", namespace |-> ns, name |-> n, annotations |-> annotations,
     type_ |-> type, cluster_ips |-> cluster_ips, lb_ingress |-> lb]

\* ResourceKey::from, src/resource.rs:13-20: the key, or the panic of
\* Option::unwrap on an object without a name or without a namespace.
ResourceKey(res) ==
    IF IsSome(res.name) /\ IsSome(res.namespace)
    THEN [panic |-> FALSE,
          key |-> [kind |-> res.kind, namespace |-> res.namespace[1], name |-> res.name[1]]]
    ELSE [panic |-> TRUE, key |-> None]

\* Iterator::filter_map over a list of Option<ip>: the present ips, in order.
FilterMapIp(entries) ==
    LET present == SelectSeq(entries, IsSome)
    IN  [i \in DOMAIN present |-> present[i][1]]

\* src/plan.rs:21-34
ingress_addresses(ingress) ==
    IF IsSome(ingress.lb_ingress) THEN FilterMapIp(ingress.lb_ingress[1]) ELSE <<>>

\* src/plan.rs:36-64
service_addresses(service) ==
    IF /\ IsSome(service.type_)
       /\ IsSome(service.lb_ingress)
       /\ service.type_[1] = "LoadBalancer"
    THEN FilterMapIp(service.lb_ingress[1])
    ELSE IF IsSome(service.cluster_ips)
         THEN service.cluster_ips[1]
         ELSE <<>>

\* The address record of one address, none for an address that does not parse
\* (the loop body of src/plan.rs:72-84).
AddressRecord(hostname, addr) ==
    LET parsed == IpAddrFromStr(addr)
    IN  IF parsed = "V4" THEN << Record("", "A", hostname, addr) >>
        ELSE IF parsed = "V6" THEN << Record("", "AAAA", hostname, addr) >>
        ELSE <<>>

\* src/plan.rs:66-92
records_for_hostname(hostname, addresses) ==
    IF addresses = <<>> THEN <<>>
    ELSE Flatten([i \in DOMAIN addresses |-> AddressRecord(hostname, addresses[i])])
         \o << Record("", "TXT", hostname, APP_NAME) >>

\* The records of one resource, or the panic of Option::unwrap on a rule
\* without a host (src/plan.rs:97-115).
ResourceRecords(resource) ==
    IF resource.kind = "Ingress"
    THEN IF IsSome(resource.rules)
         THEN LET rules == resource.rules[1]
              IN  IF \E i \in DOMAIN rules : ~IsSome(rules[i])
                  THEN [panic |-> TRUE, records |-> <<>>]
                  ELSE [panic |-> FALSE,
                        records |-> Flatten([i \in DOMAIN rules |->
                            records_for_hostname(rules[i][1], ingress_addresses(resource))])]
         ELSE [panic |-> FALSE, records |-> <<>>]
    ELSE IF /\ IsSome(resource.annotations)
            /\ HOSTNAME_LABEL \in DOMAIN resource.annotations[1]
         THEN [panic |-> FALSE,
               records |-> records_for_hostname(resource.annotations[1][HOSTNAME_LABEL],
                                                service_addresses(resource))]
         ELSE [panic |-> FALSE, records |-> <<>>]

\* src/plan.rs:94-118.  [panic |-> TRUE] when the loop panics, else the records.
compute_records(watched) ==
    CHOOSE out \in
        {IF \E i \in DOMAIN each : each[i].panic
         THEN [panic |-> TRUE, records |-> <<>>]
         ELSE [panic |-> FALSE, records |-> Flatten([i \in DOMAIN each |-> each[i].records])]
         : each \in {[i \in DOMAIN watched |-> ResourceRecords(watched[i])]}} : TRUE

\* The filter of src/main.rs:85-87.
ZoneFilter(records, zone_name) ==
    SelectSeq(records, LAMBDA r : EndsWith(r.name, zone_name))

(***************************************************************************)
(* The diff, src/plan.rs:124-174.                                          *)
(***************************************************************************)
PlanAction(action, record) == [action |-> action, record |-> record]

Min(S) == CHOOSE x \in S : \A y \in S : x <= y

\* src/plan.rs:125-129: the first record of the same type and name.
find(records, record) ==
    LET hits == {i \in DOMAIN records :
                    records[i]._type = record._type /\ records[i].name = record.name}
    IN  IF hits = {} THEN None ELSE Some(records[Min(hits)])

\* src/plan.rs:131-134
managed(actual) ==
    {actual[i].name : i \in {j \in DOMAIN actual :
                                actual[j]._type = "TXT" /\ actual[j].content = APP_NAME}}

\* not_managed as it would be if the filter kept nothing.
not_managed_empty(actual) == {}

\* src/plan.rs:135-138
not_managed(actual) ==
    {actual[i].name : i \in {j \in DOMAIN actual : actual[j].name \notin managed(actual)}}

\* The loop body as it would be without the check of src/plan.rs:144-147.
ExpectedAction_unchecked(record, actual) ==
    LET existing == find(actual, record)
    IN  IF IsSome(existing)
        THEN IF record.content # existing[1].content
             THEN << PlanAction("Update", [record EXCEPT !.id = existing[1].id]) >>
             ELSE <<>>
        ELSE IF record.name \in not_managed(actual)
             THEN <<>>
             ELSE << PlanAction("Add", record) >>

\* The loop body as it would be if the Update did not echo the existing id
\* (src/plan.rs:152).
ExpectedAction_without_id(record, actual) ==
    LET existing == find(actual, record)
    IN  IF IsSome(existing)
        THEN IF record.name \notin managed(actual)
             THEN <<>>
             ELSE IF record.content # existing[1].content
                  THEN << PlanAction("Update", record) >>
                  ELSE <<>>
        ELSE IF record.name \in not_managed(actual)
             THEN <<>>
             ELSE << PlanAction("Add", record) >>

\* The body of the loop over expected, src/plan.rs:142-165: no action or one.
ExpectedAction(record, actual) ==
    LET existing == find(actual, record)
    IN  IF IsSome(existing)
        THEN IF record.name \notin managed(actual)
             THEN <<>>
             ELSE IF record.content # existing[1].content
                  THEN << PlanAction("Update", [record EXCEPT !.id = existing[1].id]) >>
                  ELSE <<>>
        ELSE IF record.name \in not_managed(actual)
             THEN <<>>
             ELSE << PlanAction("Add", record) >>

\* The loop over actual as it would be if it spared the markers.
DeleteActions_sparing_markers(expected, actual) ==
    LET doomed == SelectSeq(actual, LAMBDA r :
                      /\ r.name \in managed(actual)
                      /\ ~IsSome(find(expected, r))
                      /\ ~(r._type = "TXT" /\ r.content = APP_NAME))
    IN  [i \in DOMAIN doomed |-> PlanAction("Delete", doomed[i])]

\* The loop over actual, src/plan.rs:167-171.
DeleteActions(expected, actual) ==
    LET doomed == SelectSeq(actual, LAMBDA r :
                      r.name \in managed(actual) /\ ~IsSome(find(expected, r)))
    IN  [i \in DOMAIN doomed |-> PlanAction("Delete", doomed[i])]

plan(expected, actual) ==
    Flatten([i \in DOMAIN expected |-> ExpectedAction(expected[i], actual)])
    \o DeleteActions(expected, actual)

(***************************************************************************)
(* The provider (src/api.rs).                                              *)
(***************************************************************************)
\* What one HTTP exchange can come to: a transport failure (send or json
\* fails, src/api.rs:73-76), or a deserialized CfResponse (src/api.rs:30-35).
Transport == [transport |-> TRUE, success |-> FALSE, result |-> None]
CfResponse(success, result) == [transport |-> FALSE, success |-> success, result |-> result]

\* Every outcome of a call whose payload, when present, is one of payloads.
Responses(payloads) ==
    {Transport, CfResponse(FALSE, None), CfResponse(TRUE, None)}
    \cup {CfResponse(TRUE, Some(p)) : p \in payloads}

\* `?` on the transport result, then CfResponse::result (src/api.rs:37-45):
\* Err(Transport), Err(Api), the panic of unwrap on None, or Ok(payload).
CfResult(resp) ==
    IF resp.transport THEN [tag |-> "Err", err |-> "cf transport error", value |-> None]
    ELSE IF ~resp.success THEN [tag |-> "Err", err |-> "cf api error", value |-> None]
    ELSE IF ~IsSome(resp.result) THEN [tag |-> "Panic", err |-> "", value |-> None]
    ELSE [tag |-> "Ok", err |-> "", value |-> resp.result]

\* The simulated store: Add creates a record with a fresh id (POST), Update
\* overwrites the record with the given id (PUT), Delete removes it (DELETE).
\* src/api.rs:90-123 and the calls of src/main.rs:105-109.
StoreIds(store) == {store[i].id : i \in DOMAIN store}

FreshId(store) ==
    ToString(Min({n \in 1..(Len(store) + 1) : ToString(n) \notin StoreIds(store)}))

ApplyAction(store, change) ==
    IF change.action = "Add"
    THEN Append(store, [change.record EXCEPT !.id = FreshId(store)])
    ELSE IF change.action = "Update"
    THEN [i \in DOMAIN store |->
             IF store[i].id = change.record.id THEN change.record ELSE store[i]]
    ELSE SelectSeq(store, LAMBDA r : r.id # change.record.id)

(***************************************************************************)
(* Bounds and input universes.                                             *)
(***************************************************************************)
\* The longest expected list and the longest provider listing the diff is
\* tried on.
MaxExpected == 3
MaxActual == 2

\* ZONE_NAME of src/main.rs:65
ZONE_NAME == "example.com"

HostA == "a.example.com"
HostB == "b.example.com"
Ip1 == "10.0.0.5"
Ip2 == "10.0.0.9"
Ip3 == "10.0.0.7"

SeqsUpTo(S, n) == UNION {[1..k -> S] : k \in 0..n}

\* Desired-side records (empty id): two addresses for one host, one for the
\* other, and the marker of each.
ExpectedUniverse ==
    {Record("", "A", HostA, Ip1), Record("", "A", HostA, Ip2), Record("", "A", HostB, Ip1)}
    \cup {Record("", "TXT", h, APP_NAME) : h \in {HostA, HostB}}

\* Provider-side records before the provider's ids: the same, a TXT record
\* that is not the marker, and an address that no expected record has.
ActualUniverse ==
    ExpectedUniverse
    \cup {Record("", "TXT", HostA, "v=spf1 -all"), Record("", "A", HostA, Ip3)}

\* A provider listing: every record carries its own id.
WithIds(records) == [i \in DOMAIN records |-> [records[i] EXCEPT !.id = ToString(i)]]

ExpectedLists == SeqsUpTo(ExpectedUniverse, MaxExpected)
ActualLists == {WithIds(a) : a \in SeqsUpTo(ActualUniverse, MaxActual)}

\* The most rules and the most load-balancer addresses of the Ingress the
\* expected lists are computed from.
MaxRules == 2
MaxAddresses == 2

\* The resources the expected lists are computed from.
HarnessIngresses ==
    {Ingress(Some("default"), Some("web"), Some(rules), Some(lb)) :
        rules \in SeqsUpTo({Some(HostA), Some(HostB)}, MaxRules),
        lb \in SeqsUpTo({Some(Ip1), Some(Ip2)}, MaxAddresses)}

\* What compute_records and the zone filter hand to the diff when the cache
\* holds one of these.
ComputedExpected ==
    {ZoneFilter(compute_records(<< r >>).records, ZONE_NAME) : r \in HarnessIngresses}

\* The records of expected, first occurrences only, in order.
RECURSIVE Distinct(_)
Distinct(records) ==
    IF records = <<>> THEN <<>>
    ELSE LET rest == Distinct(SubSeq(records, 1, Len(records) - 1))
             last == records[Len(records)]
         IN  IF \E i \in DOMAIN rest : rest[i] = last THEN rest ELSE Append(rest, last)

\* desired_actual(E): the records of E, each with a provider id, and the
\* marker of every name of E.
desired_actual(expected) ==
    LET markers == [i \in DOMAIN expected |-> Record("", "TXT", expected[i].name, APP_NAME)]
    IN  WithIds(Distinct(expected \o markers))

\* The listings of a zone that the controller has brought to a desired state
\* before: the records and the markers of a computed expected list.
ManagedListings == {desired_actual(e) : e \in ComputedExpected}

(***************************************************************************)
(* What the cluster and the provider can send.                             *)
(***************************************************************************)
Kinds == {"Service", "Ingress"}

\* The objects a watch can deliver, per kind.  "web" is seen in two versions,
\* the second with a rule that declares no host; one Ingress comes without
\* metadata.name and one Service without metadata.namespace.
IngressObjects ==
    {Ingress(Some("default"), Some("web"), Some(<< Some(HostA) >>), Some(<< Some(Ip1) >>)),
     Ingress(Some("default"), Some("web"), Some(<< None >>), Some(<< Some(Ip1) >>)),
     Ingress(Some("default"), None, Some(<< Some(HostA) >>), None)}

ServiceObjects ==
    {Service(Some("default"), Some("lb"), Some(HOSTNAME_LABEL :> HostA), Some("LoadBalancer"),
             Some(<< "10.96.0.1" >>), Some(<< Some(Ip2) >>)),
     Service(None, Some("lb"), Some(HOSTNAME_LABEL :> HostA), Some("LoadBalancer"),
             Some(<< "10.96.0.1" >>), Some(<< Some(Ip2) >>))}

Objects(kind) == IF kind = "Ingress" THEN IngressObjects ELSE ServiceObjects

\* The list of a Restarted event: objects in the order sent, one per identity.
ListsOf(objects) ==
    {list \in SeqsUpTo(objects, Cardinality(objects)) :
        \A i, j \in DOMAIN list :
            (list[i].namespace = list[j].namespace /\ list[i].name = list[j].name) => i = j}

IngressLists == ListsOf(IngressObjects)
ServiceLists == ListsOf(ServiceObjects)

ObjectLists(kind) == IF kind = "Ingress" THEN IngressLists ELSE ServiceLists

\* kube_runtime::watcher::Event, src/main.rs:34-52
EventsOf(objects, lists) ==
    {[tag |-> "Restarted", objs |-> list] : list \in lists}
    \cup {[tag |-> t, objs |-> << o >>] : t \in {"Applied", "Deleted"}, o \in objects}

IngressEvents == EventsOf(IngressObjects, IngressLists)
ServiceEvents == EventsOf(ServiceObjects, ServiceLists)

Events(kind) == IF kind = "Ingress" THEN IngressEvents ELSE ServiceEvents

\* GET zones: the provider's zones.
ConfiguredZone == [id |-> "z1", name |-> ZONE_NAME]
OtherZone == [id |-> "z2", name |-> "other.org"]
ZoneListings == {<< OtherZone >>, << OtherZone, ConfiguredZone >>}

\* GET dns_records: the store is the provider's and anyone may write to it,
\* so a listing is any of these.
ProviderListings ==
    {<<>>,
     WithIds(<< Record("", "A", HostA, Ip2), Record("", "TXT", HostA, APP_NAME) >>),
     WithIds(<< Record("", "A", HostA, Ip1) >>)}

\* POST, PUT, DELETE answer with an opaque payload.
MutationPayloads == {"{}"}

(***************************************************************************)
(* State.                                                                  *)
(***************************************************************************)
VARIABLES
    resources,      \* the cache, src/main.rs:71: ResourceKey -> WatchedResource
    lock,           \* who holds the cache Mutex: "free", "main" or a watcher's kind
    chan,           \* notifications queued in the channel, src/main.rs:72
    wpc,            \* per watcher: "stream", "locking", "locked", "sleep", and
                    \* "dead" once the task has panicked
    mpc,            \* main: "recv1", "recv2", "lock", "locked", "zones", "records",
                    \*       "exec", "wait", "panicked"
    main_expected,  \* `expected`, src/main.rs:81, until its last use at line 99
    main_zone,      \* `zone`, src/main.rs:92: Option of the zone id
    main_plan,      \* what is left of `plan`, src/main.rs:99-102
    main_calls,     \* create/update/delete calls issued in this cycle
    main_err,       \* the Err of this cycle's async block, src/main.rs:91-115
    main_failed,    \* what the provider failed at in this cycle: "", "zones",
                    \* "zone" (not listed), "records" or "change"
    main_fresh,     \* the channel was empty when the current cycle began
    delivered,      \* per kind: the watcher has applied an event
    dirty,          \* the cache has changed since the last snapshot
    h_phase,        \* the diff on its own: "off", "input", "planned"
    h_expected, h_actual,   \* its inputs
    h_plan,         \* plan(h_expected, h_actual)
    h_idem,         \* plan(h_expected, desired_actual(h_expected))
    c_phase,        \* compute_records on its own: "off", "input", "done"
    c_resources,    \* its input: the cache's values in iteration order
    c_addresses,    \* per resource: ingress_addresses or service_addresses
    c_records,      \* compute_records(c_resources), and what main makes of it
    r_store,        \* the zone's records at the provider, when the model keeps them
    r_failed,       \* the change whose call failed last, if one has
    r_applied       \* the `expected` of the last cycle that listed the zone and
                    \* got every call of its plan answered Ok, if one has

sys_vars == << resources, lock, chan, wpc, mpc, main_expected, main_zone, main_plan,
               main_calls, main_err, main_failed, main_fresh, delivered, dirty >>
c_vars == << c_phase, c_resources, c_addresses, c_records >>
r_vars == << r_store, r_failed, r_applied >>
h_vars == << h_phase, h_expected, h_actual, h_plan, h_idem, c_vars, r_vars >>
vars == << sys_vars, h_vars >>

NoErr == ""

SysInit ==
    /\ resources = <<>>
    /\ lock = "free"
    /\ chan = 0
    /\ wpc = [k \in Kinds |-> "stream"]
    /\ mpc = "recv1"
    /\ main_expected = <<>>
    /\ main_zone = None
    /\ main_plan = <<>>
    /\ main_calls = 0
    /\ main_err = NoErr
    /\ main_failed = ""
    /\ main_fresh = FALSE
    /\ delivered = [k \in Kinds |-> FALSE]
    /\ dirty = FALSE

HarnessOff ==
    /\ h_phase = "off"
    /\ h_expected = <<>>
    /\ h_actual = <<>>
    /\ h_plan = <<>>
    /\ h_idem = <<>>

NoRecords == [panic |-> FALSE, records |-> <<>>, expected |-> <<>>]

ComputeOff ==
    /\ c_phase = "off"
    /\ c_resources = <<>>
    /\ c_addresses = <<>>
    /\ c_records = NoRecords

RetryOff ==
    /\ r_store = <<>>
    /\ r_failed = None
    /\ r_applied = None

Init == SysInit /\ HarnessOff /\ ComputeOff /\ RetryOff

(***************************************************************************)
(* The watchers, src/main.rs:21-61.  A step runs from one await to the     *)
(* next.  The event's content is read only under the lock, so it is drawn  *)
(* where it is applied.                                                    *)
(***************************************************************************)
Alive == mpc # "panicked"

\* HashMap::insert and HashMap::remove
HashMapInsert(map, key, value) ==
    [k \in DOMAIN map \cup {key} |-> IF k = key THEN value ELSE map[k]]
HashMapRemove(map, key) == [k \in DOMAIN map \ {key} |-> map[k]]

\* src/main.rs:35-40: insert the listed objects in order, up to the first
\* whose key panics.
RestartedArm(map, objs) ==
    LET panics == {i \in DOMAIN objs : ResourceKey(objs[i]).panic}
        done == IF panics = {} THEN Len(objs) ELSE Min(panics) - 1
        keys == {ResourceKey(objs[i]).key : i \in 1..done}
        last(k) == CHOOSE i \in 1..done :
                       /\ ResourceKey(objs[i]).key = k
                       /\ \A j \in 1..done : ResourceKey(objs[j]).key = k => j <= i
    IN  [panic |-> panics # {},
         map |-> [k \in DOMAIN map \cup keys |->
                     IF k \in keys THEN objs[last(k)] ELSE map[k]]]

\* src/main.rs:43-45: the key is computed before the insert.
AppliedArm(map, obj) ==
    LET key == ResourceKey(obj)
    IN  IF key.panic THEN [panic |-> TRUE, map |-> map]
        ELSE [panic |-> FALSE, map |-> HashMapInsert(map, key.key, obj)]

\* src/main.rs:48-50
DeletedArm(map, obj) ==
    LET key == ResourceKey(obj)
    IN  IF key.panic THEN [panic |-> TRUE, map |-> map]
        ELSE [panic |-> FALSE, map |-> HashMapRemove(map, key.key)]

\* The arm of the event: the cache it leaves, and whether it panicked.
ApplyEvent(map, ev) ==
    IF ev.tag = "Restarted" THEN RestartedArm(map, ev.objs)
    ELSE IF ev.tag = "Applied" THEN AppliedArm(map, ev.objs[1])
    ELSE DeletedArm(map, ev.objs[1])

\* Sender::try_send, src/main.rs:41,46,51: a full channel drops the message
\* and the Err is ignored.
TrySend(queued) == IF queued < ChannelCapacity THEN queued + 1 ELSE queued

sys_rest_of_main ==
    << mpc, main_expected, main_zone, main_plan, main_calls, main_err, main_failed,
       main_fresh >>

\* stream.try_next() yields Ok(Some(event)): on to watched_resources.lock().
WatcherEvent(k) ==
    /\ Alive
    /\ wpc[k] = "stream"
    /\ wpc' = [wpc EXCEPT ![k] = "locking"]
    /\ UNCHANGED << resources, lock, chan, delivered, dirty, sys_rest_of_main, h_vars >>

\* stream.try_next() yields Ok(None), src/main.rs:54: around the loop again.
WatcherNone(k) ==
    /\ Alive
    /\ wpc[k] = "stream"
    /\ UNCHANGED vars

\* stream.try_next() yields Err, src/main.rs:55-58: sleep 30 s.
WatcherError(k) ==
    /\ Alive
    /\ wpc[k] = "stream"
    /\ wpc' = [wpc EXCEPT ![k] = "sleep"]
    /\ UNCHANGED << resources, lock, chan, delivered, dirty, sys_rest_of_main, h_vars >>

WatcherWake(k) ==
    /\ Alive
    /\ wpc[k] = "sleep"
    /\ wpc' = [wpc EXCEPT ![k] = "stream"]
    /\ UNCHANGED << resources, lock, chan, delivered, dirty, sys_rest_of_main, h_vars >>

\* watched_resources.lock().await completes.
WatcherLock(k) ==
    /\ Alive
    /\ wpc[k] = "locking"
    /\ lock = "free"
    /\ lock' = k
    /\ wpc' = [wpc EXCEPT ![k] = "locked"]
    /\ UNCHANGED << resources, chan, delivered, dirty, sys_rest_of_main, h_vars >>

\* The arm of the event: mutate the cache, try_send, drop the guard.
WatcherApply(k, ev) ==
    /\ Alive
    /\ wpc[k] = "locked"
    /\ \E out \in {ApplyEvent(resources, ev)} :
         /\ ~out.panic
         /\ resources' = out.map
    /\ chan' = TrySend(chan)
    /\ lock' = "free"
    /\ wpc' = [wpc EXCEPT ![k] = "stream"]
    /\ delivered' = [delivered EXCEPT ![k] = TRUE]
    /\ dirty' = (dirty \/ resources' # resources)
    /\ UNCHANGED << sys_rest_of_main, h_vars >>

\* The arm panics in ResourceKey::from (src/resource.rs:17-18): the objects
\* listed before stay inserted, nothing is sent, the unwinding drops the guard
\* and the task of this watcher is over.  The process and the other tasks go on.
WatcherApplyPanic(k, ev) ==
    /\ Alive
    /\ wpc[k] = "locked"
    /\ \E out \in {ApplyEvent(resources, ev)} :
         /\ out.panic
         /\ resources' = out.map
    /\ lock' = "free"
    /\ wpc' = [wpc EXCEPT ![k] = "dead"]
    /\ dirty' = (dirty \/ resources' # resources)
    /\ UNCHANGED << chan, delivered, sys_rest_of_main, h_vars >>

Watcher(k) ==
    \/ WatcherEvent(k)
    \/ WatcherNone(k)
    \/ WatcherError(k)
    \/ WatcherWake(k)
    \/ WatcherLock(k)
    \/ \E ev \in Events(k) : WatcherApply(k, ev)
    \/ \E ev \in Events(k) : WatcherApplyPanic(k, ev)

(***************************************************************************)
(* The main task, src/main.rs:64-124.                                      *)
(***************************************************************************)
Perms(S) == {f \in [1..Cardinality(S) -> S] : \A i, j \in DOMAIN f : f[i] = f[j] => i = j}

\* The async block ends (Ok or Err) and the task reaches select!.
EndCycle(err) ==
    /\ mpc' = "wait"
    /\ main_err' = err
    /\ main_expected' = <<>>
    /\ main_zone' = None
    /\ main_plan' = <<>>

\* A panic of the main task ends the process.
Panic ==
    /\ mpc' = "panicked"
    /\ UNCHANGED << main_expected, main_zone, main_plan, main_err >>

\* src/main.rs:77-78: rx.recv().await, twice.
MainRecvGate ==
    /\ mpc \in {"recv1", "recv2"}
    /\ chan > 0
    /\ chan' = chan - 1
    /\ mpc' = IF mpc = "recv1" THEN "recv2" ELSE "lock"
    /\ main_fresh' = (mpc = "recv2" /\ chan = 1)
    /\ UNCHANGED << resources, lock, wpc, main_expected, main_zone, main_plan, main_calls,
                    main_err, main_failed, delivered, dirty, h_vars >>

\* src/main.rs:82: resources.lock().await completes.
MainLock ==
    /\ mpc = "lock"
    /\ lock = "free"
    /\ lock' = "main"
    /\ mpc' = "locked"
    /\ UNCHANGED << resources, chan, wpc, main_expected, main_zone, main_plan, main_calls,
                    main_err, main_failed, main_fresh, delivered, dirty, h_vars >>

\* The cache's values in one of the orders the HashMap can iterate in.
Snapshots(map) ==
    {[i \in DOMAIN order |-> map[order[i]]] : order \in Perms(DOMAIN map)}

\* A snapshot whose guard outlives the block of src/main.rs:81-88: the lock
\* is still held when the provider is called.
MainSnapshot_keeps_guard ==
    /\ mpc = "locked"
    /\ \E values \in Snapshots(resources) :
         /\ ~compute_records(values).panic
         /\ main_expected' = ZoneFilter(compute_records(values).records, ZONE_NAME)
    /\ mpc' = "zones"
    /\ dirty' = FALSE
    /\ UNCHANGED << resources, lock, chan, wpc, main_zone, main_plan, main_calls, main_err,
                    main_failed, main_fresh, delivered, h_vars >>

\* src/main.rs:83-88: compute the expected records from the cache, in the
\* HashMap's order, filter them and drop the guard.
MainSnapshot ==
    /\ mpc = "locked"
    /\ \E values \in Snapshots(resources) :
         /\ ~compute_records(values).panic
         /\ main_expected' = ZoneFilter(compute_records(values).records, ZONE_NAME)
    /\ mpc' = "zones"
    /\ dirty' = FALSE
    /\ lock' = "free"
    /\ UNCHANGED << resources, chan, wpc, main_zone, main_plan, main_calls, main_err,
                    main_failed, main_fresh, delivered, h_vars >>

\* src/main.rs:84 with src/plan.rs:103: compute_records panics; the unwinding
\* drops the guard.
MainSnapshotPanic ==
    /\ mpc = "locked"
    /\ \E values \in Snapshots(resources) : compute_records(values).panic
    /\ Panic
    /\ lock' = "free"
    /\ UNCHANGED << resources, chan, wpc, main_calls, main_failed, main_fresh, delivered,
                    dirty, h_vars >>

\* The zone of the configured name, src/main.rs:93-95.
FindZone(zones, zone_name) ==
    LET hits == {i \in DOMAIN zones : zones[i].name = zone_name}
    IN  IF hits = {} THEN None ELSE Some(zones[Min(hits)])

\* A cycle that does not end when the configured zone is not listed: it goes
\* on to the record listing with no zone id.
AfterZones_without_ok_or(resp) ==
    LET r == CfResult(resp)
        zone == IF r.tag = "Ok" THEN FindZone(r.value[1], ZONE_NAME) ELSE None
    IN  IF r.tag = "Panic" THEN Panic
        ELSE IF r.tag = "Err" THEN EndCycle(r.err)
        ELSE /\ mpc' = "records"
             /\ main_zone' = IF IsSome(zone) THEN Some(zone[1].id) ELSE Some("")
             /\ UNCHANGED << main_expected, main_plan, main_err >>

\* Where the cycle goes after cf_client.zones(), src/main.rs:92-95.
AfterZones(resp) ==
    LET r == CfResult(resp)
        zone == IF r.tag = "Ok" THEN FindZone(r.value[1], ZONE_NAME) ELSE None
    IN  IF r.tag = "Panic" THEN Panic
        ELSE IF r.tag = "Err" THEN EndCycle(r.err)
        ELSE IF ~IsSome(zone) THEN EndCycle("zone not found")
        ELSE /\ mpc' = "records"
             /\ main_zone' = Some(zone[1].id)
             /\ UNCHANGED << main_expected, main_plan, main_err >>

\* The provider call failed: no answer, or an answer with success = false.
Failed(resp) == resp.transport \/ ~resp.success

\* The answer lists the zones and the configured zone is not among them.
ZoneMissing(resp) ==
    /\ ~Failed(resp)
    /\ IsSome(resp.result)
    /\ \A i \in DOMAIN resp.result[1] : resp.result[1][i].name # ZONE_NAME

MainZones ==
    /\ mpc = "zones"
    /\ \E resp \in Responses(ZoneListings) :
         /\ AfterZones(resp)
         /\ main_failed' = IF Failed(resp) THEN "zones"
                            ELSE IF ZoneMissing(resp) THEN "zone" ELSE main_failed
    /\ UNCHANGED << resources, lock, chan, wpc, main_calls, main_fresh, delivered, dirty,
                    h_vars >>

\* Where the cycle goes after cf_client.records(), src/main.rs:96-102.
AfterRecords(resp) ==
    LET r == CfResult(resp)
        changes == IF r.tag = "Ok" THEN plan(main_expected, r.value[1]) ELSE <<>>
    IN  IF r.tag = "Panic" THEN Panic
        ELSE IF r.tag = "Err" THEN EndCycle(r.err)
        ELSE IF changes = <<>> THEN EndCycle(NoErr)
        ELSE /\ mpc' = "exec"
             /\ main_plan' = changes
             /\ main_expected' = <<>>
             /\ UNCHANGED << main_zone, main_err >>

\* cf_client.records() is answered by resp, src/main.rs:96-100.
RecordsAnswered(resp) ==
    /\ mpc = "records"
    /\ AfterRecords(resp)
    /\ main_failed' = IF Failed(resp) THEN "records" ELSE main_failed
    /\ UNCHANGED << resources, lock, chan, wpc, main_calls, main_fresh, delivered, dirty >>

MainRecords ==
    /\ \E resp \in Responses(ProviderListings) : RecordsAnswered(resp)
    /\ UNCHANGED h_vars

\* Where the cycle goes after the call for the next change, src/main.rs:102-112.
AfterChange(resp) ==
    LET r == CfResult(resp)
    IN  IF r.tag = "Panic" THEN Panic
        ELSE IF r.tag = "Err" THEN EndCycle(r.err)
        ELSE IF Tail(main_plan) = <<>> THEN EndCycle(NoErr)
        ELSE /\ mpc' = "exec"
             /\ main_plan' = Tail(main_plan)
             /\ UNCHANGED << main_expected, main_zone, main_err >>

\* The call for the next change is answered by resp, src/main.rs:102-110.
ChangeAnswered(resp) ==
    /\ mpc = "exec"
    /\ main_calls' = main_calls + 1
    /\ AfterChange(resp)
    /\ main_failed' = IF Failed(resp) THEN "change" ELSE main_failed
    /\ UNCHANGED << resources, lock, chan, wpc, main_fresh, delivered, dirty >>

MainExec ==
    /\ \E resp \in Responses(MutationPayloads) : ChangeAnswered(resp)
    /\ UNCHANGED h_vars

\* The loop of src/main.rs:80 goes around: a new cycle, nothing called and
\* nothing failed in it yet.
NextIteration ==
    /\ mpc' = "lock"
    /\ main_calls' = 0
    /\ main_err' = NoErr
    /\ main_failed' = ""

\* select!, src/main.rs:119-122: the sleep of 60 s ends.
MainWaitTimer ==
    /\ mpc = "wait"
    /\ NextIteration
    /\ main_fresh' = (chan = 0)
    /\ UNCHANGED << resources, lock, chan, wpc, main_expected, main_zone, main_plan,
                    delivered, dirty, h_vars >>

\* select!, src/main.rs:119-122: rx.recv() yields a notification.
MainWaitRecv ==
    /\ mpc = "wait"
    /\ chan > 0
    /\ chan' = chan - 1
    /\ NextIteration
    /\ main_fresh' = (chan = 1)
    /\ UNCHANGED << resources, lock, wpc, main_expected, main_zone, main_plan,
                    delivered, dirty, h_vars >>

Main ==
    \/ MainRecvGate
    \/ MainLock
    \/ MainSnapshot
    \/ MainSnapshotPanic
    \/ MainZones
    \/ MainRecords
    \/ MainExec
    \/ MainWaitTimer
    \/ MainWaitRecv

Next == Main \/ \E k \in Kinds : Watcher(k)

Spec == Init /\ [][Next]_vars

(***************************************************************************)
(* The diff on its own: plan() applied to every expected list and every    *)
(* provider listing of the universes above.                                *)
(***************************************************************************)
PlanInit ==
    /\ SysInit
    /\ h_phase = "input"
    /\ h_expected \in ExpectedLists
    /\ h_actual \in ActualLists \cup ManagedListings
    /\ h_plan = <<>>
    /\ h_idem = <<>>
    /\ ComputeOff
    /\ RetryOff

HarnessPlan ==
    /\ h_phase = "input"
    /\ h_phase' = "planned"
    /\ h_plan' = plan(h_expected, h_actual)
    /\ h_idem' = plan(h_expected, desired_actual(h_expected))
    /\ UNCHANGED << h_expected, h_actual, c_vars, r_vars, sys_vars >>

PlanNext == HarnessPlan

PlanSpec == PlanInit /\ [][PlanNext]_vars

(***************************************************************************)
(* Properties of the diff (checked under PlanSpec).                        *)
(***************************************************************************)
\* The names that carry the marker TXT record in a listing.
MarkerNames(listing) ==
    {n \in {listing[i].name : i \in DOMAIN listing} :
        \E i \in DOMAIN listing :
            /\ listing[i].name = n
            /\ listing[i]._type = "TXT"
            /\ listing[i].content = APP_NAME}

NamesOf(records) == {records[i].name : i \in DOMAIN records}

\* C1 - Ownership safety: every Update and every Delete of plan(E, A) carries
\* the id of a record of A, and that record's name, which is the action's
\* name, carries the marker TXT record in A.
C1_OwnershipSafety ==
    h_phase # "input" =>
        \A i \in DOMAIN h_plan :
            h_plan[i].action \in {"Update", "Delete"} =>
                /\ h_plan[i].record.name \in MarkerNames(h_actual)
                /\ \E j \in DOMAIN h_actual : h_actual[j].id = h_plan[i].record.id
                /\ \A j \in DOMAIN h_actual :
                       h_actual[j].id = h_plan[i].record.id =>
                           /\ h_actual[j].name = h_plan[i].record.name
                           /\ h_actual[j].name \in MarkerNames(h_actual)

\* C1's case: the plan updates or deletes something while the listing also
\* holds a record at a name without marker that the expected list names too.
C1_Witness ==
    /\ h_phase = "planned"
    /\ \E i \in DOMAIN h_plan : h_plan[i].action \in {"Update", "Delete"}
    /\ \E j \in DOMAIN h_actual :
           /\ h_actual[j].name \notin MarkerNames(h_actual)
           /\ h_actual[j].name \in NamesOf(h_expected)

\* The names at which the listing holds a non-TXT record and no marker.
ForeignNames(listing) ==
    {listing[i].name : i \in {j \in DOMAIN listing : listing[j]._type # "TXT"}}
    \ MarkerNames(listing)

\* C2 - Conflict avoidance: at a name where A holds a non-TXT record and no
\* marker, and E holds any record, plan(E, A) has no Add and no Update.
C2_ConflictAvoidance ==
    h_phase # "input" =>
        \A n \in ForeignNames(h_actual) \cap NamesOf(h_expected) :
            \A i \in DOMAIN h_plan :
                h_plan[i].action \in {"Add", "Update"} => h_plan[i].record.name # n

\* C2's case: E holds, at such a name, a record of a type A does not hold
\* there, and one of the type A holds there with another content.
C2_Witness ==
    /\ h_phase = "planned"
    /\ \E n \in ForeignNames(h_actual) :
           /\ \E i \in DOMAIN h_expected :
                  /\ h_expected[i].name = n
                  /\ ~IsSome(find(h_actual, h_expected[i]))
           /\ \E i \in DOMAIN h_expected :
                  /\ h_expected[i].name = n
                  /\ IsSome(find(h_actual, h_expected[i]))
                  /\ find(h_actual, h_expected[i])[1].content # h_expected[i].content

\* C3 - Idempotence: for an expected list E that compute_records can produce,
\* the plan against E's own records (with provider ids) and markers is empty.
C3_Idempotence ==
    (h_phase # "input" /\ h_expected \in ComputedExpected) => h_idem = <<>>

(***************************************************************************)
(* Scheduling.  The runtime polls every task that can run; the cache Mutex *)
(* is fair (FIFO), so a task that waits for it gets it; provider calls and *)
(* timers end.  Nothing obliges the cluster to send an event or an error.  *)
(***************************************************************************)
WatcherRuns(k) ==
    \/ WatcherWake(k)
    \/ WatcherLock(k)
    \/ \E ev \in Events(k) : WatcherApply(k, ev) \/ WatcherApplyPanic(k, ev)

Fairness ==
    /\ SF_vars(Main)
    /\ \A k \in Kinds : SF_vars(WatcherRuns(k))

FairSpec == Spec /\ Fairness

\* The one assumption the wait step needs: the sleep of 60 s ends.
TimerFairness == WF_vars(MainWaitTimer)

TimerSpec == Spec /\ TimerFairness

(***************************************************************************)
(* Properties of the tasks (under Spec; C8 under TimerSpec, C10 under       *)
(* FairSpec).                                                              *)
(***************************************************************************)
\* C5 - Initial-sync gate: the main task is past the two recv() of the gate
\* only if each of the two watchers has delivered an event.
C5_InitialSyncGate ==
    mpc \notin {"recv1", "recv2"} => \A k \in Kinds : delivered[k]

\* The cache entries of one kind.
KindKeys(map, kind) == {key \in DOMAIN map : key.kind = kind}
KindEntries(map, kind) == {map[key] : key \in KindKeys(map, kind)}

\* C6 - Resync replaces the kind's set: a step in which the watcher of kind k
\* applies Restarted(S) leaves exactly the objects of S as the cache entries of
\* kind k, and the entries of the other kind as they were.
C6_ResyncReplaces ==
    [][\A k \in Kinds : \A S \in ObjectLists(k) :
          WatcherApply(k, [tag |-> "Restarted", objs |-> S]) =>
              /\ KindEntries(resources', k) = {S[i] : i \in DOMAIN S}
              /\ \A other \in Kinds \ {k} :
                     /\ KindKeys(resources', other) = KindKeys(resources, other)
                     /\ \A key \in KindKeys(resources, other) :
                            resources'[key] = resources[key]]_vars

\* C7 - Per-action failure isolation: when the provider fails the call for a
\* change that is not the last of the plan, the main task goes on to the
\* next change of the same plan.
C7_ActionFailureIsolation ==
    [][(mpc = "exec" /\ main_failed' = "change" /\ Len(main_plan) > 1) =>
          (mpc' = "exec" /\ main_plan' = Tail(main_plan))]_vars

\* C8 - Per-cycle failure isolation: once the provider has failed at the zone
\* listing, at the zone lookup or at the record listing, the main task is at
\* select! with no create, update or delete call issued in the cycle and no
\* plan to execute; and from select! it always comes to the next cycle.
C8_CycleFailureIsolation ==
    /\ [](main_failed \in {"zones", "zone", "records"} =>
              (mpc = "wait" /\ main_calls = 0 /\ main_plan = <<>> /\ main_err # NoErr))
    /\ (mpc = "wait" ~> mpc = "lock")

\* C8's case: each of the three failures has ended a cycle.
C8_Witness ==
    /\ mpc = "wait"
    /\ main_failed = "zone"
    /\ main_err = "zone not found"

\* C9 - No input terminates the process: the main task never panics.
C9_NeverPanics == mpc # "panicked"

\* C10 - Dropped notifications cost latency only: in the steady state (the
\* gate of src/main.rs:77-78 passed), every change of the cache is followed by
\* a snapshot that is taken after it.
C10_MutationReachesSnapshot ==
    (dirty /\ mpc \notin {"recv1", "recv2"}) ~> ~dirty

\* Where a task is suspended: main on a provider call, on the channel or on
\* the timer; a watcher on the watch stream or on its sleep.
MainSuspended == mpc \in {"recv1", "recv2", "zones", "records", "exec", "wait"}
WatcherSuspended(k) == wpc[k] \in {"stream", "sleep"}

\* C11 - Lock discipline: the lock is held by main only between lock() and
\* the end of the snapshot block, by a watcher only inside the arm of one
\* event; no suspended task holds it, so during a provider call the lock is
\* free or with a watcher that is applying an event.
C11_LockDiscipline ==
    /\ lock = "main" => mpc = "locked"
    /\ MainSuspended => lock # "main"
    /\ \A k \in Kinds :
           /\ lock = k => wpc[k] = "locked"
           /\ WatcherSuspended(k) => lock # k
    /\ mpc = "panicked" => lock # "main"

\* C11's case: a watcher has taken the lock while main is inside a provider
\* call.
C11_Witness ==
    /\ mpc \in {"zones", "records", "exec"}
    /\ \E k \in Kinds : lock = k /\ wpc[k] = "locked"

\* C12 - Debounce: when the channel was empty as the cycle began, whatever
\* the watchers have queued since is one burst; the wake-up by notification
\* that follows the cycle leaves nothing of it in the channel, so the cycle
\* after that waits for the timer or for a new event.
C12_Debounce ==
    [][(mpc = "wait" /\ main_fresh /\ mpc' = "lock" /\ chan' # chan) => chan' = 0]_vars

(***************************************************************************)
(* compute_records on its own: applied to one resource of every shape the  *)
(* code distinguishes, and to pairs of resources that name the same host.  *)
(***************************************************************************)
Ip6 == "2001:db8::1"
Ip6Mapped == "::ffff:10.0.0.1"
NotAnIp == "not-an-ip"
ClusterIp == "10.96.0.1"

ComputeIngresses ==
    {Ingress(Some("default"), Some("web"), Some(rules), Some(lb)) :
        rules \in SeqsUpTo({Some(HostA), Some(HostB)}, MaxRules),
        lb \in SeqsUpTo({Some(Ip1), Some(Ip6), Some(Ip6Mapped), Some(NotAnIp)}, MaxAddresses)}

ComputeServices ==
    {Service(Some("default"), Some("lb"), annotations, type, cluster_ips, lb) :
        annotations \in {None, Some(HOSTNAME_LABEL :> HostA)},
        type \in {None, Some("ClusterIP"), Some("LoadBalancer")},
        cluster_ips \in {None, Some(<< ClusterIp >>)},
        lb \in {None, Some(<<>>), Some(<< Some(Ip1) >>)}}

\* Two resources that name the same host with the same address.
SameHostPool ==
    {Ingress(Some("default"), Some("web"), Some(<< Some(HostA) >>), Some(<< Some(Ip1) >>)),
     Service(Some("default"), Some("lb"), Some(HOSTNAME_LABEL :> HostA), Some("LoadBalancer"),
             Some(<< ClusterIp >>), Some(<< Some(Ip1) >>))}

ComputeInputs ==
    {<< r >> : r \in ComputeIngresses \cup ComputeServices}
    \cup {<< r1, r2 >> : r1 \in SameHostPool, r2 \in SameHostPool}

\* The address list compute_records passes for a resource, src/plan.rs:104,111.
AddressesOf(resource) ==
    IF resource.kind = "Ingress"
    THEN ingress_addresses(resource)
    ELSE service_addresses(resource)

ComputeInit ==
    /\ SysInit
    /\ HarnessOff
    /\ c_phase = "input"
    /\ c_resources \in ComputeInputs
    /\ c_addresses = <<>>
    /\ c_records = NoRecords
    /\ RetryOff

\* src/main.rs:84-87: compute_records, then the zone filter.
Compute ==
    /\ c_phase = "input"
    /\ c_phase' = "done"
    /\ c_addresses' = [i \in DOMAIN c_resources |-> AddressesOf(c_resources[i])]
    /\ \E out \in {compute_records(c_resources)} :
           c_records' = [panic |-> out.panic, records |-> out.records,
                         expected |-> ZoneFilter(out.records, ZONE_NAME)]
    /\ UNCHANGED << c_resources, h_phase, h_expected, h_actual, h_plan, h_idem, r_vars,
                    sys_vars >>

ComputeNext == Compute

ComputeSpec == ComputeInit /\ [][ComputeNext]_vars

(***************************************************************************)
(* Properties of compute_records (checked under ComputeSpec).              *)
(***************************************************************************)
\* C13 - Marker only with an address: a name that carries the marker TXT
\* record in the computed records carries an A or AAAA record there too.
C13_MarkerOnlyWithAddress ==
    (c_phase = "done" /\ ~c_records.panic) =>
        \A i \in DOMAIN c_records.records :
            (c_records.records[i]._type = "TXT" /\ c_records.records[i].content = APP_NAME) =>
                \E j \in DOMAIN c_records.records :
                    /\ c_records.records[j].name = c_records.records[i].name
                    /\ c_records.records[j]._type \in {"A", "AAAA"}

\* No record occurs twice in a list.
NoDuplicates(records) ==
    \A i, j \in DOMAIN records : records[i] = records[j] => i = j

\* C14 - Deduplication: the expected list handed to the diff holds each
\* (type, name, content) record once, and the plan for an empty provider
\* store holds one Add per record; already so when no resource lists an
\* address twice, so that a repeated record comes from two rules or from two
\* resources.
C14_Deduplication ==
    (/\ c_phase = "done"
     /\ ~c_records.panic
     /\ \A i \in DOMAIN c_addresses : NoDuplicates(c_addresses[i])) =>
        /\ NoDuplicates(c_records.expected)
        /\ NoDuplicates(plan(c_records.expected, <<>>))

\* C15 - Service address selection: for a Service with the hostname
\* annotation, the addresses are the load-balancer list when the status has
\* one, whatever spec.type, and the cluster ips (none when absent) otherwise.
\* A status whose list is present and empty is left out: it reports a list
\* and no address.
C15_ServiceAddressSelection ==
    c_phase = "done" =>
        \A i \in DOMAIN c_resources :
            (/\ c_resources[i].kind = "Service"
             /\ IsSome(c_resources[i].annotations)
             /\ HOSTNAME_LABEL \in DOMAIN c_resources[i].annotations[1]
             /\ c_resources[i].lb_ingress # Some(<<>>)) =>
                c_addresses[i] =
                    IF IsSome(c_resources[i].lb_ingress)
                    THEN FilterMapIp(c_resources[i].lb_ingress[1])
                    ELSE IF IsSome(c_resources[i].cluster_ips)
                         THEN c_resources[i].cluster_ips[1]
                         ELSE <<>>

(***************************************************************************)
(* More properties of the diff (checked under PlanSpec).                   *)
(***************************************************************************)
SameTypeName(r1, r2) == r1._type = r2._type /\ r1.name = r2.name

ActionsOf(changes, action) == SelectSeq(changes, LAMBDA c : c.action = action)

\* C16 - Delete rule: the Delete actions of plan(E, A) are, in A's order, the
\* records of A (with their ids) whose name carries the marker in A and for
\* which E has no record of the same type and name.
C16_DeleteRule ==
    h_phase # "input" =>
        LET deletes == ActionsOf(h_plan, "Delete")
            doomed == SelectSeq(h_actual, LAMBDA r :
                          /\ r.name \in MarkerNames(h_actual)
                          /\ \A i \in DOMAIN h_expected : ~SameTypeName(h_expected[i], r))
        IN  [i \in DOMAIN deletes |-> deletes[i].record] = doomed

\* C16's case: E has no record at a managed name, and the plan deletes the
\* marker of that name and another record at it.
C16_Witness ==
    /\ h_phase = "planned"
    /\ \E n \in MarkerNames(h_actual) \ NamesOf(h_expected) :
           /\ \E i \in DOMAIN h_plan :
                  /\ h_plan[i].action = "Delete"
                  /\ h_plan[i].record.name = n
                  /\ h_plan[i].record._type = "TXT"
                  /\ h_plan[i].record.content = APP_NAME
           /\ \E i \in DOMAIN h_plan :
                  /\ h_plan[i].action = "Delete"
                  /\ h_plan[i].record.name = n
                  /\ h_plan[i].record._type # "TXT"

\* The positions of the records of a listing with the type and name of r.
Matches(listing, r) == {j \in DOMAIN listing : SameTypeName(listing[j], r)}

\* C17 - Update rule: every Update carries the id of a record of A of its
\* type and name whose content differs from the Update's, and the content of
\* a record of E of that type and name; and an expected record at a managed
\* name whose matching record of A (the first of its type and name in the
\* listing) has its content yields neither Add nor Update.
C17_UpdateRule ==
    h_phase # "input" =>
        /\ \A i \in DOMAIN h_plan :
               h_plan[i].action = "Update" =>
                   /\ \E j \in Matches(h_actual, h_plan[i].record) :
                          /\ h_actual[j].id = h_plan[i].record.id
                          /\ h_actual[j].content # h_plan[i].record.content
                   /\ \E k \in Matches(h_expected, h_plan[i].record) :
                          h_expected[k].content = h_plan[i].record.content
        /\ \A k \in DOMAIN h_expected :
               (/\ h_expected[k].name \in MarkerNames(h_actual)
                /\ Matches(h_actual, h_expected[k]) # {}
                /\ h_actual[Min(Matches(h_actual, h_expected[k]))].content
                       = h_expected[k].content) =>
                   \A i \in DOMAIN h_plan :
                       h_plan[i].action \in {"Add", "Update"} =>
                           ~(/\ SameTypeName(h_plan[i].record, h_expected[k])
                             /\ h_plan[i].record.content = h_expected[k].content)

\* C17's case: the plan updates a record, and another expected record is
\* found with its content at a managed name.
C17_Witness ==
    /\ h_phase = "planned"
    /\ \E i \in DOMAIN h_plan : h_plan[i].action = "Update"
    /\ \E k \in DOMAIN h_expected :
           /\ h_expected[k].name \in MarkerNames(h_actual)
           /\ \E j \in Matches(h_actual, h_expected[k]) :
                  h_actual[j].content = h_expected[k].content

\* A record without its provider id.
Key(r) == << r._type, r.name, r.content >>

\* C18 - An empty plan means the provider matches the desired state: when
\* every name of E carries the marker in A and plan(E, A) is empty, the
\* records of A at the names of E are, ids aside, the records of E; already
\* so when E is a list compute_records can produce and A holds no TXT record
\* other than markers.
C18_EmptyPlanMeansConverged ==
    (/\ h_phase # "input"
     /\ h_expected \in ComputedExpected
     /\ NamesOf(h_expected) \subseteq MarkerNames(h_actual)
     /\ \A j \in DOMAIN h_actual :
            h_actual[j]._type = "TXT" => h_actual[j].content = APP_NAME
     /\ h_plan = <<>>) =>
        {Key(h_actual[j]) : j \in {x \in DOMAIN h_actual : h_actual[x].name \in NamesOf(h_expected)}}
            = {Key(h_expected[i]) : i \in DOMAIN h_expected}

\* The provider ids the Updates and the Deletes of a plan address, in order.
Targets(changes) ==
    LET aimed == SelectSeq(changes, LAMBDA c : c.action \in {"Update", "Delete"})
    IN  [i \in DOMAIN aimed |-> aimed[i].record.id]

\* C20 - One action per provider record: with unique ids in A, no id is the
\* target of two actions of plan(E, A); already so when E is a list
\* compute_records can produce and holds no record twice.
C20_OneActionPerRecord ==
    (h_phase # "input" /\ h_expected \in ComputedExpected /\ NoDuplicates(h_expected)) =>
        \A i, j \in DOMAIN Targets(h_plan) :
            Targets(h_plan)[i] = Targets(h_plan)[j] => i = j

(***************************************************************************)
(* Cycles of main against a provider zone that only the controller writes, *)
(* src/main.rs:80-123: the tasks and the steps of main are those of Spec;  *)
(* the record listing answers with the zone and an answered change is      *)
(* applied to it.  The gate of src/main.rs:77-78 has been passed: the      *)
(* Ingress watcher has delivered "web" and the Service watcher an empty    *)
(* list.  The cluster may change the addresses of "web" once.              *)
(***************************************************************************)
CycleWeb(ips) ==
    Ingress(Some("default"), Some("web"), Some(<< Some(HostA) >>),
            Some([i \in DOMAIN ips |-> Some(ips[i])]))

\* The Ingress in the cache when the first cycle begins.
CycleObjects == {CycleWeb(<< Ip1 >>), CycleWeb(<< Ip1, Ip2 >>)}

\* The Ingress as the cluster changes it.
CycleChanged == CycleWeb(<< Ip2 >>)

CycleCaches == {ResourceKey(o).key :> o : o \in CycleObjects}

CycleEvents == {[tag |-> "Applied", objs |-> << CycleChanged >>]}

\* `expected` as src/main.rs:81-88 computes it from a cache.
ExpectedOf(map) ==
    {ZoneFilter(compute_records(values).records, ZONE_NAME) : values \in Snapshots(map)}

\* The zone when the first cycle begins: empty, or as a converged controller
\* is meant to have left it.
CycleStores ==
    {<<>>} \cup {desired_actual(e) : e \in UNION {ExpectedOf(c) : c \in CycleCaches}}

CycleInit ==
    /\ resources \in CycleCaches
    /\ lock = "free"
    /\ chan = 0
    /\ wpc = [k \in Kinds |-> "stream"]
    /\ mpc = "lock"
    /\ main_expected = <<>>
    /\ main_zone = None
    /\ main_plan = <<>>
    /\ main_calls = 0
    /\ main_err = NoErr
    /\ main_failed = ""
    /\ main_fresh = TRUE
    /\ delivered = [k \in Kinds |-> TRUE]
    /\ dirty = TRUE
    /\ HarnessOff
    /\ ComputeOff
    /\ r_store \in CycleStores
    /\ r_failed = None
    /\ r_applied = None

\* The watch stream of the Ingress watcher yields the change of "web".
CycleEvent ==
    /\ \A key \in DOMAIN resources : resources[key] # CycleChanged
    /\ WatcherEvent("Ingress")

CycleWatcher ==
    \/ CycleEvent
    \/ WatcherLock("Ingress")
    \/ \E ev \in CycleEvents : WatcherApply("Ingress", ev)

h_rest == << h_phase, h_expected, h_actual, h_plan, h_idem, c_vars >>

\* src/main.rs:96-100: GET dns_records answers with the zone (or fails).
CycleRecords ==
    /\ \E resp \in Responses({r_store}) :
         /\ RecordsAnswered(resp)
         /\ r_applied' = IF CfResult(resp).tag = "Ok" THEN Some(main_expected)
                          ELSE r_applied
    /\ UNCHANGED << r_store, r_failed, h_rest >>

\* Whether the provider has carried out a change it answered with resp: it
\* has when it says so; a transport failure (src/api.rs:94-97, send or json)
\* comes before or after it did.
Carried(resp) == IF resp.transport THEN {TRUE, FALSE} ELSE {resp.success}

\* src/main.rs:102-110: the call for the next change and the provider's side
\* of it.
CycleExec ==
    /\ \E resp \in Responses(MutationPayloads) :
         /\ ChangeAnswered(resp)
         /\ \E carried \in Carried(resp) :
                r_store' = IF carried THEN ApplyAction(r_store, Head(main_plan))
                           ELSE r_store
         /\ r_failed' = IF Failed(resp) THEN Some(Head(main_plan)) ELSE r_failed
         /\ r_applied' = IF CfResult(resp).tag = "Ok" THEN r_applied ELSE None
    /\ UNCHANGED h_rest

CycleMain ==
    \/ MainLock
    \/ MainSnapshot
    \/ MainZones
    \/ CycleRecords
    \/ CycleExec
    \/ MainWaitTimer
    \/ MainWaitRecv

CycleNext == CycleMain \/ CycleWatcher

\* The runtime polls the tasks, provider calls and the sleep end.
CycleFairness ==
    /\ WF_vars(CycleMain)
    /\ WF_vars(WatcherLock("Ingress") \/ \E ev \in CycleEvents : WatcherApply("Ingress", ev))

CycleSpec == CycleInit /\ [][CycleNext]_vars /\ CycleFairness

\* C4 - Convergence in one step: when the zone was listed for an expected
\* list E and every change of plan(E, zone) was answered Ok, the plan that the
\* next listing leads to for the same E is empty: the listing ends the cycle
\* with nothing to execute.
C4_ConvergesInOneStep ==
    [][(/\ mpc = "records"
        /\ IsSome(r_applied)
        /\ r_applied[1] = main_expected) => main_plan' = <<>>]_vars

\* The Add of the marker of name n has failed after the Add of an address
\* record of n has succeeded.  (plan emits the Add of a marker only for a name
\* without any record in the listing.)
MarkerAddFailed(n) ==
    /\ IsSome(r_failed)
    /\ r_failed[1].action = "Add"
    /\ r_failed[1].record = Record("", "TXT", n, APP_NAME)
    /\ \E j \in DOMAIN r_store :
           r_store[j].name = n /\ r_store[j]._type \in {"A", "AAAA"}

\* The zone holds every expected record of name n, and the marker of n.
Recovered(n) ==
    /\ n \in MarkerNames(r_store)
    /\ \E expected \in ExpectedOf(resources) :
           \A i \in DOMAIN expected :
               expected[i].name = n =>
                   \E j \in DOMAIN r_store : Key(r_store[j]) = Key(expected[i])

\* What the claim rules out after the failure: a provider call of the cycle
\* that is not answered Ok, or a cache that has changed since the snapshot.
Disturbed == main_failed # "" \/ mpc = "panicked" \/ dirty

\* C19 - Recovery from a partially applied plan: once the Add of the marker
\* of a name has failed after the Add of its address record, the zone comes
\* to hold every expected record of the name and its marker, unless a later
\* call fails or the cache changes.
C19_RecoversPartialPlan ==
    MarkerAddFailed(HostA) ~> (Recovered(HostA) \/ Disturbed)

====
